---- MODULE Spec2Model ----
(***************************************************************************)
(* Model of lib/RemoteClient.js: the RemoteClient request/timeout          *)
(* protocol, its connection supervisor, and the RemoteManager server       *)
(* (authorization middleware, event router, manager lookup and dispatch).  *)
(*                                                                         *)
(* JavaScript strings that the code inspects character by character (peer  *)
(* addresses) are sequences of one-character strings; strings the code     *)
(* only passes along or tests for truthiness (callback messages) are TLA+  *)
(* strings.  JavaScript values are tagged records [t, s].                  *)
(***************************************************************************)
EXTENDS Integers, Sequences, FiniteSets, TLC

(***************************************************************************)
(* Bounds of the model                                                     *)
(***************************************************************************)
\* number of RemoteClient.request calls a behaviour may issue
MaxCalls == 2
\* longest generated peer address / allowlist entry (AuthSpec)
MaxAddrLen == 2
\* number of reopen timers pending at once while requests are in flight
MaxReopens == 1
\* number of reopen timers pending at once, one request in flight (SupSpec)
MaxPending == 2

Calls == 1..MaxCalls

(***************************************************************************)
(* JavaScript values                                                       *)
(***************************************************************************)
Undefined == [t |-> "undefined", s |-> ""]
Null == [t |-> "null", s |-> ""]
\* a string value; s is a TLA+ string
Str(s) == [t |-> "string", s |-> s]
\* an address string value; s is a sequence of characters
Addr(s) == [t |-> "string", s |-> s]
\* a non-string result value of a manager operation
Obj(s) == [t |-> "object", s |-> s]
\* new Error(msg): an Error object whose message is s
NewError(s) == [t |-> "Error", s |-> s]

\* JavaScript truthiness of a callback argument (undefined, null, '' are falsy)
Truthy(v) == (v.t = "object") \/ (v.t = "Error") \/ (v.t = "string" /\ v.s # "")
\* an absent handshake field (undefined)
NoAddr == [t |-> "undefined", s |-> <<>>]
\* JavaScript truthiness of a handshake field (undefined and '' are falsy)
AddrTruthy(v) == v.t = "string" /\ v.s # <<>>

(***************************************************************************)
(* Peer addresses                                                          *)
(***************************************************************************)
Digits == {"0", "1", "2", "3", "4", "5", "6", "7", "8", "9"}

Loopback4 == <<"1", "2", "7", ".", "0", ".", "0", ".", "1">>
Loopback6 == <<":", ":", "1">>
Mapped4 == <<":", ":", "f", "f", "f", "f", ":">> \o Loopback4
Foreign4 == <<"1", "0", ".", "0", ".", "0", ".", "5">>

\* characters generated addresses are built from: a digit, the dot, a separator
AddrChars == {"1", ".", ":"}

RECURSIVE SeqsUpTo(_)
SeqsUpTo(n) ==
    IF n = 0 THEN {<<>>}
    ELSE LET shorter == SeqsUpTo(n - 1)
         IN shorter \cup {Append(s, ch) : s \in {x \in shorter : Len(x) = n - 1}, ch \in AddrChars}

\* String.prototype.replace(/[^\d.]/g, ''): drop every character that is
\* neither a digit nor a dot
StripNonDigitDot(s) == SelectSeq(s, LAMBDA ch : ch \in Digits \cup {"."})

\* Array.prototype.indexOf: zero-based index of the first strictly equal
\* element, -1 when there is none
IndexOf(arr, x) ==
    IF \E i \in 1..Len(arr) : arr[i] = x
    THEN (CHOOSE i \in 1..Len(arr) : arr[i] = x /\ \A j \in 1..(i - 1) : arr[j] # x) - 1
    ELSE -1

\* allowedIP default of the RemoteManager constructor
DefaultAllowedIP == <<Loopback4, Loopback6>>

\* peer addresses and allowlists the authorization check is explored over
Addresses == SeqsUpTo(MaxAddrLen) \cup {Loopback4, Loopback6, Mapped4, Foreign4}
HandshakeValues == {NoAddr} \cup {Addr(a) : a \in Addresses}
Handshakes == [xff : HandshakeValues, address : HandshakeValues]
AllowLists ==
    { DefaultAllowedIP, <<>>, <<Foreign4>>, <<<<"1">>, <<"1", ".">>>>, <<<<>>, <<":", "1">>>> }

\* handshakes of the request-protocol specification: accepted after
\* normalization, rejected through the forwarded-for header, rejected with an
\* empty address, no address at all
MainHandshakes ==
    { [xff |-> NoAddr, address |-> Addr(Mapped4)],
      [xff |-> Addr(Foreign4), address |-> Addr(Loopback4)],
      [xff |-> Addr(<<>>), address |-> Addr(<<>>)],
      [xff |-> NoAddr, address |-> NoAddr] }

(***************************************************************************)
(* Operations, identifiers, manager results                                *)
(***************************************************************************)
\* RemoteManager.setEvents: const events
events == <<"createOffer", "loadInventory">>
\* RemoteClient.setManagers: const methods
methods == <<"createOffer", "loadInventory">>
\* this.managers: getSteamID64() of each configured manager instance, in order
managers == <<"A", "B">>

\* the steamIDs the client is constructed with
steamIDs == <<"A", "B", "Z">>

\* this[steamID][method] = this.request.bind(this, { event: method, steamID }):
\* the call of request made by the proxy callable of (steamID, method)
boundRequest(steamID, method, args) ==
    [event |-> method, steamID |-> steamID, args |-> args]

\* calls of request({ steamID, event }, args): args is an object or omitted
RequestInputs ==
    { [event |-> "createOffer", steamID |-> "A", args |-> Obj("partner")],
      [event |-> "loadInventory", steamID |-> "B", args |-> Undefined],
      [event |-> "loadInventory", steamID |-> "Z", args |-> Obj("appid")],
      [event |-> "deleteAll", steamID |-> "A", args |-> Undefined] }
NoRequest == [event |-> "", steamID |-> "", args |-> Undefined]

\* messages a failing manager operation rejects with
FailureMessages == {"", "Steam is down"}
\* the value manager[method](args) resolves with
ValueOf(manager, method) ==
    Obj(IF method = "createOffer"
        THEN (IF manager = 1 THEN "offer of A" ELSE "offer of B")
        ELSE (IF manager = 1 THEN "inventory of A" ELSE "inventory of B"))
\* the ways manager[method](args) can settle
ManagerOutcomes(manager, method) ==
    {[ok |-> TRUE, v |-> ValueOf(manager, method), message |-> ""]}
        \cup {[ok |-> FALSE, v |-> Undefined, message |-> m] : m \in FailureMessages}
NoOutcome == [ok |-> FALSE, v |-> Undefined, message |-> "none"]

VARIABLES
    allowedIP,   \* server: the allowlist given to setConnection
    handshake,   \* the incoming connection's x-forwarded-for header and address
    socket,      \* server: the connection's socket (status, middleware run, handlers)
    req,         \* per call: the { event, steamID } it was issued with
    wire,        \* per call: where its event packet is
    timeout,     \* per call: the `timeout` variable of request and its timer
    outcome,     \* per call: the outcomes its promise delivered to the caller
    srv,         \* per call: what the server did with its packet
    ack,         \* per call: the arguments the server invoked the callback with
    acked,       \* per call: whether the client callback has been invoked
    channel,     \* client: state of the Transport Channel (this.connection)
    reopens,     \* client: number of pending setTimeout(() => io.open(), 1000)
    broadcast,   \* server: the events emitted to all clients, in order
    client,      \* client: the properties of the RemoteClient object
    got          \* client: the last call of getManager and what it returned

vars == <<allowedIP, handshake, socket, req, wire, timeout, outcome, srv, ack, acked,
          channel, reopens, broadcast, client, got>>
objVars == <<broadcast, client, got>>
supVars == <<channel, reopens>>
callVars == <<req, wire, timeout, outcome, srv, ack, acked>>

(***************************************************************************)
(* RemoteManager.setConnection: the middleware chain of a connection       *)
(***************************************************************************)
\* socket.handshake.headers['x-forwarded-for'] || socket.handshake.address
socketIP(hs) == IF AddrTruthy(hs.xff) THEN hs.xff ELSE hs.address

\* allowedIP.indexOf(v) for a handshake value v
IndexOfValue(allow, v) == IF v.t = "string" THEN IndexOf(allow, v.s) ELSE -1

\* a mutant of authorization: the normalized address is never tried
authorizationExactOnly(hs, allow) ==
    LET ip == socketIP(hs)
    IN IF (~AddrTruthy(ip)) \/ IndexOfValue(allow, ip) = -1 THEN "disconnect" ELSE "next"

\* function authorization(socket, next): "next" when next() is called,
\* "disconnect" when socket.disconnect() is returned, "throw" when
\* socketIP.replace is evaluated on undefined
authorization(hs, allow) ==
    LET ip == socketIP(hs)
    IN IF (~AddrTruthy(ip)) \/ IndexOfValue(allow, ip) = -1
       THEN IF ip.t # "string" THEN "throw"
            ELSE IF IndexOf(allow, StripNonDigitDot(ip.s)) = -1 THEN "disconnect"
            ELSE "next"
       ELSE "next"

\* a mutant of the chain: the handlers are set before the authorization runs
middlewareSetEventsFirst == <<"setEvents", "authorization">>

\* the io.use(...) registrations of setConnection, in order
middleware == <<"authorization", "setEvents">>

NewSocket == [status |-> "pending", steps |-> <<>>, handlers |-> FALSE]

\* socket.io runs the registered middleware in order; each one runs only when
\* the one before it called next()
RECURSIVE run(_, _, _, _)
run(i, sock, hs, allow) ==
    IF i > Len(middleware) THEN [sock EXCEPT !.status = "connected"]
    ELSE LET ran == [sock EXCEPT !.steps = Append(@, middleware[i])]
         IN IF middleware[i] = "authorization"
            THEN LET verdict == authorization(hs, allow)
                 IN IF verdict = "next" THEN run(i + 1, ran, hs, allow)
                    ELSE IF verdict = "disconnect" THEN [ran EXCEPT !.status = "disconnected"]
                    ELSE [ran EXCEPT !.status = "threw"]
            ELSE run(i + 1, [ran EXCEPT !.handlers = TRUE], hs, allow)

\* a connection arrives: the middleware chain runs on its socket
OnConnection ==
    /\ socket.status = "pending"
    /\ socket' = run(1, socket, handshake, allowedIP)
    /\ UNCHANGED <<objVars, allowedIP, handshake, callVars, supVars>>

(***************************************************************************)
(* RemoteManager.setEvents: the event router and the operation handlers    *)
(***************************************************************************)
\* a mutant of findBySteamID: the first manager is found for every known steamID
findBySteamIDFirst(steamID) ==
    IF \E i \in 1..Len(managers) : managers[i] = steamID THEN 1 ELSE 0

\* RemoteManager.prototype.findBySteamID: index of the first manager whose
\* getSteamID64() is steamID, 0 for undefined
findBySteamID(steamID) ==
    IF \E i \in 1..Len(managers) : managers[i] = steamID
    THEN CHOOSE i \in 1..Len(managers) :
            managers[i] = steamID /\ \A j \in 1..(i - 1) : managers[j] # steamID
    ELSE 0

\* this.connection.emit(event, { steamID, args }, cb) of request: the packet
\* of a call, args defaulting to { } when omitted
emit(call) ==
    [event |-> call.event, steamID |-> call.steamID,
     args |-> IF call.args = Undefined THEN Obj("{}") ELSE call.args]

NoAck == [sent |-> FALSE, err |-> Undefined, data |-> Undefined]
\* cb(err, data) invoked by the server
Cb(err, data) == [sent |-> TRUE, err |-> err, data |-> data]

\* what the server did with one packet: the handler reached, the manager and
\* method invoked and with which args, the number of times cb was invoked
NoSrv == [handler |-> "", lookups |-> 0, manager |-> 0, method |-> "",
          args |-> Undefined, op |-> "none", result |-> NoOutcome, cbs |-> 0]

\* args = args || { }
orEmpty(args) == IF Truthy(args) THEN args ELSE Obj("{}")

\* a mutant of setEvents: the router forwards every event name, and the
\* handler reached is the one of the first operation
setEventsUnchecked(packet) ==
    LET method == IF IndexOf(events, packet.event) = -1 THEN events[1] ELSE packet.event
        manager == findBySteamID(packet.steamID)
    IN IF manager = 0
       THEN [srv |-> [NoSrv EXCEPT !.handler = method, !.lookups = 1, !.cbs = 1],
             ack |-> Cb(Str("manager wasn't found"), Undefined)]
       ELSE [srv |-> [NoSrv EXCEPT !.handler = method, !.lookups = 1, !.manager = manager,
                                   !.method = method, !.args = orEmpty(packet.args),
                                   !.op = "pending"],
             ack |-> NoAck]

\* a mutant of setEvents: an unknown steamID falls through to the first manager
setEventsFirstManager(packet) ==
    IF IndexOf(events, packet.event) = -1
    THEN [srv |-> [NoSrv EXCEPT !.cbs = 1],
          ack |-> Cb(Str("method isn't allowed"), Undefined)]
    ELSE LET found == findBySteamID(packet.steamID)
             manager == IF found = 0 THEN 1 ELSE found
         IN [srv |-> [NoSrv EXCEPT !.handler = packet.event, !.lookups = 1,
                                   !.manager = manager, !.method = packet.event,
                                   !.args = orEmpty(packet.args), !.op = "pending"],
             ack |-> NoAck]

\* what the handlers set by setEvents do with one inbound packet
\* [event, { steamID, args }, cb]: the socket.use router, then the handler
\* registered with socket.on for the event (callback bound to its name)
setEvents(packet) ==
    IF IndexOf(events, packet.event) = -1
    THEN [srv |-> [NoSrv EXCEPT !.cbs = 1],
          ack |-> Cb(Str("method isn't allowed"), Undefined)]
    ELSE LET method == packet.event
             manager == findBySteamID(packet.steamID)
         IN IF manager = 0
            THEN [srv |-> [NoSrv EXCEPT !.handler = method, !.lookups = 1, !.cbs = 1],
                  ack |-> Cb(Str("manager wasn't found"), Undefined)]
            ELSE [srv |-> [NoSrv EXCEPT !.handler = method, !.lookups = 1,
                                        !.manager = manager, !.method = method,
                                        !.args = orEmpty(packet.args), !.op = "pending"],
                  ack |-> NoAck]

\* a mutant of settled: the result is passed as the callback's first argument
settledDataFirst(res) ==
    IF res.ok THEN Cb(res.v, Undefined) ELSE Cb(Str(res.message), Undefined)

\* manager[method](args).then((data) => cb(null, data)).catch((err) => cb(err.message))
settled(res) ==
    IF res.ok THEN Cb(Null, res.v) ELSE Cb(Str(res.message), Undefined)

\* a mutant of thenCatch: the rejection handler runs after the fulfilment
\* handler too
thenCatchBoth(res) ==
    IF res.ok THEN <<settled(res), Cb(Undefined, Undefined)>> ELSE <<settled(res)>>

\* .then(onFulfilled).catch(onRejected): the invocations of cb made when the
\* promise of the manager operation settles with res
thenCatch(res) == <<settled(res)>>

\* the server receives the event packet of call c
ServerReceive(c) ==
    /\ wire[c] = "sent"
    /\ channel = "connected"
    /\ socket.status # "pending"
    /\ IF socket.handlers
       THEN LET did == setEvents(emit(req[c]))
            IN /\ wire' = [wire EXCEPT ![c] = "received"]
               /\ srv' = [srv EXCEPT ![c] = did.srv]
               /\ ack' = [ack EXCEPT ![c] = did.ack]
       ELSE /\ wire' = [wire EXCEPT ![c] = "dropped"]
            /\ UNCHANGED <<srv, ack>>
    /\ UNCHANGED <<objVars, allowedIP, handshake, socket, req, timeout, outcome, acked, supVars>>

\* the manager operation invoked for call c settles
ManagerSettle(c) ==
    /\ srv[c].op = "pending"
    /\ \E res \in ManagerOutcomes(srv[c].manager, srv[c].method) :
          LET cbs == thenCatch(res)
          IN /\ srv' = [srv EXCEPT ![c].op = "settled", ![c].result = res,
                                    ![c].cbs = @ + Len(cbs)]
             /\ ack' = [ack EXCEPT ![c] = cbs[1]]
    /\ UNCHANGED <<objVars, allowedIP, handshake, socket, req, wire, timeout, outcome, acked, supVars>>

(***************************************************************************)
(* RemoteClient.request                                                    *)
(***************************************************************************)
Fulfilled(v) == [kind |-> "resolved", value |-> v]
Rejected(e) == [kind |-> "rejected", value |-> e]

\* a mutant of settle: a continuation takes effect on a settled promise too
settleAgain(o, x) == Append(o, x)

\* resolve / reject of new Promise: the first call settles the promise and is
\* delivered to the caller, later calls have no effect
settle(o, x) == IF o = <<>> THEN <<x>> ELSE o

\* a mutant of onTimeout: the error is created but reject is never called
onTimeoutSilent(o) == [timeout |-> "null", outcome |-> o]

\* the setTimeout callback of request
onTimeout(o) ==
    [timeout |-> "null", outcome |-> settle(o, Rejected(NewError("Request Timeout")))]

\* a mutant of onAck: no check of the timeout variable
onAckUnguarded(t, o, err, data) ==
    [timeout |-> "cleared",
     outcome |-> IF Truthy(err) THEN settle(o, Rejected(NewError(err.s)))
                 ELSE settle(o, Fulfilled(data))]

\* the acknowledgment callback (err, data) => { ... } of request
onAck(t, o, err, data) ==
    IF t # "null"
    THEN [timeout |-> "cleared",
          outcome |-> IF Truthy(err) THEN settle(o, Rejected(NewError(err.s)))
                      ELSE settle(o, Fulfilled(data))]
    ELSE [timeout |-> t, outcome |-> o]

\* a mutant of assignTimeout: one timeout variable shared by all calls
assignTimeoutShared(t, c, v) == [d \in DOMAIN t |-> v]

\* let timeout: each call of request has its own timeout variable, assigned
\* by that call's timer and acknowledgment callbacks only
assignTimeout(t, c, v) == [t EXCEPT ![c] = v]

\* request({ steamID, event }, args): the timer is started and the event emitted
Request(c) ==
    /\ wire[c] = "idle"
    /\ \E input \in RequestInputs : req' = [req EXCEPT ![c] = input]
    /\ timeout' = assignTimeout(timeout, c, "armed")
    /\ wire' = [wire EXCEPT ![c] = "sent"]
    /\ UNCHANGED <<objVars, allowedIP, handshake, socket, outcome, srv, ack, acked, supVars>>

\* the request timer of call c fires
TimerFire(c) ==
    /\ timeout[c] = "armed"
    /\ LET did == onTimeout(outcome[c])
       IN /\ timeout' = assignTimeout(timeout, c, did.timeout)
          /\ outcome' = [outcome EXCEPT ![c] = did.outcome]
    /\ UNCHANGED <<objVars, allowedIP, handshake, socket, req, wire, srv, ack, acked, supVars>>

\* the acknowledgment callback of call c is invoked with the server's
\* arguments: the first time, or once more (a duplicate delivery)
AckInvoke(c) ==
    /\ ack[c].sent
    /\ channel = "connected"
    /\ LET did == onAck(timeout[c], outcome[c], ack[c].err, ack[c].data)
       IN /\ timeout' = assignTimeout(timeout, c, did.timeout)
          /\ outcome' = [outcome EXCEPT ![c] = did.outcome]
    /\ acked' = [acked EXCEPT ![c] = TRUE]
    /\ UNCHANGED <<objVars, allowedIP, handshake, socket, req, wire, srv, ack, supVars>>

(***************************************************************************)
(* RemoteClient.setConnection: the connection supervisor                   *)
(***************************************************************************)
\* the channel signals whose listeners emit 'disconnect' on the channel
FailureSignals == {"error", "connect_error", "connect_timeout"}

\* the client state a listener can reach: the channel, the pending reopen
\* timers, and every call's timeout variable and promise
clientState == [channel |-> channel, reopens |-> reopens,
                timeout |-> timeout, outcome |-> outcome]

\* a mutant of onDisconnect: the channel is closed and no reopen is scheduled
onDisconnectNoReopen(st) == [st EXCEPT !.channel = "disconnected"]

\* a mutant of onDisconnect: pending requests are failed on disconnection
onDisconnectFailsPending(st) ==
    [st EXCEPT !.channel = "disconnected", !.reopens = @ + 1,
               !.timeout = [c \in DOMAIN @ |-> IF @[c] = "armed" THEN "cleared" ELSE @[c]],
               !.outcome = [c \in DOMAIN @ |->
                               IF st.timeout[c] = "armed"
                               THEN <<[kind |-> "rejected", value |-> NewError("disconnected")]>>
                               ELSE @[c]]]

\* the 'disconnect' listener: io.disconnect(), then setTimeout(() => io.open(), 1000)
onDisconnect(st) == [st EXCEPT !.channel = "disconnected", !.reopens = @ + 1]

\* a mutant of forwardedTo: no listener for 'connect_timeout'
forwardedToTwoOnly(sig) == IF sig \in {"error", "connect_error"} THEN "disconnect" ELSE sig

\* the event whose listeners end up running when the channel emits sig: the
\* 'error', 'connect_error' and 'connect_timeout' listeners emit 'disconnect'
forwardedTo(sig) == IF sig \in FailureSignals THEN "disconnect" ELSE sig

\* the listeners set by setConnection, run on client state st when the
\* channel emits sig
ioEmit(sig, st) == IF forwardedTo(sig) = "disconnect" THEN onDisconnect(st) ELSE st

\* the channel emits sig
Signal(sig, pending) ==
    /\ reopens < pending
    /\ LET st == ioEmit(sig, clientState)
       IN /\ channel' = st.channel
          /\ reopens' = st.reopens
          /\ timeout' = st.timeout
          /\ outcome' = st.outcome
    /\ UNCHANGED <<objVars, allowedIP, handshake, socket, req, wire, srv, ack, acked>>

\* the channel emits 'disconnect'
DisconnectSignal == Signal("disconnect", MaxReopens)

\* the channel emits 'error', 'connect_error' or 'connect_timeout'
FailureSignal == \E sig \in FailureSignals : Signal(sig, MaxReopens)

\* a reopen timer fires: io.open() opens the channel unless it is open already
ReopenFire ==
    /\ reopens > 0
    /\ reopens' = reopens - 1
    /\ channel' = IF channel = "disconnected" THEN "connecting" ELSE channel
    /\ UNCHANGED <<objVars, allowedIP, handshake, socket, callVars>>

\* the opening channel reaches the server
ChannelConnect ==
    /\ channel = "connecting"
    /\ channel' = "connected"
    /\ UNCHANGED <<objVars, allowedIP, handshake, socket, callVars, reopens>>

(***************************************************************************)
(* RemoteManager.setManagers: the managers' events forwarded to clients    *)
(***************************************************************************)
MaxBroadcasts == 2

RECURSIVE Join(_)
\* the string whose characters are chars
Join(chars) == IF chars = <<>> THEN "" ELSE Head(chars) \o Join(Tail(chars))

\* the property name of array index i
IndexKey(i) == <<"0", "1">>[i + 1]

\* the accounts the server is constructed with: account.steamID is the
\* steamID64 string, or a SteamID object
accounts ==
    << [steamID |-> [t |-> "string", chars |-> <<"7", "6">>]],
       [steamID |-> [t |-> "SteamID", chars |-> <<"7", "7">>]] >>

\* steamID.getSteamID64(), and the same string for a steamID given as a string
getSteamID64(steamID) == Join(steamID.chars)

\* the own enumerable properties of a value: the characters of a string
\* under their indices, the fields of a SteamID object
ownProperties(v) ==
    IF v.t = "string"
    THEN [k \in {IndexKey(i - 1) : i \in DOMAIN v.chars} |->
             v.chars[CHOOSE i \in DOMAIN v.chars : IndexKey(i - 1) = k]]
    ELSE [k \in {"universe", "type", "instance", "accountid"} |->
             IF k = "accountid" THEN getSteamID64(v) ELSE "1"]

\* Object.assign(target, source)
ObjectAssign(target, source) ==
    [k \in DOMAIN target \cup DOMAIN source |->
        IF k \in DOMAIN source THEN source[k] ELSE target[k]]

\* data of a newItems event, offers and old states of the offer events
ItemData == {[k \in {"items"} |-> "knife"], [k \in {"items"} |-> "case"]}
Offers == {"offer 1", "offer 2"}
OldStates == {"2", "9"}
\* { offer, oldState }
OfferChange(offer, oldState) ==
    [k \in {"offer", "oldState"} |-> IF k = "offer" THEN offer ELSE oldState]

\* io.emit(event, payload) in the listener of manager m
ioEmitAll(m, event, payload) ==
    /\ Len(broadcast) < MaxBroadcasts
    /\ broadcast' = Append(broadcast, [event |-> event, manager |-> m, payload |-> payload])
    /\ UNCHANGED <<allowedIP, handshake, socket, callVars, supVars, client, got>>

\* manager.on('newItems', ...)
NewItems ==
    \E m \in DOMAIN accounts, data \in ItemData :
        ioEmitAll(m, "newItems", ObjectAssign(data, ownProperties(accounts[m].steamID)))

\* manager.on('sentOfferChanged', ...)
SentOfferChanged ==
    \E m \in DOMAIN accounts, offer \in Offers, oldState \in OldStates :
        ioEmitAll(m, "sentOfferChanged",
                  ObjectAssign(OfferChange(offer, oldState),
                               ownProperties(accounts[m].steamID)))

\* manager.on('receivedOfferChanged', ...)
ReceivedOfferChanged ==
    \E m \in DOMAIN accounts, offer \in Offers, oldState \in OldStates :
        ioEmitAll(m, "receivedOfferChanged",
                  ObjectAssign(OfferChange(offer, oldState),
                               ownProperties(accounts[m].steamID)))

(***************************************************************************)
(* RemoteClient: the proxies attached to the client object, getManager     *)
(***************************************************************************)
MaxIds == 2

\* identifier strings a client is configured with
Identifiers == {"A", "B", "", "undefined", "steamIDs", "connection", "request"}
\* the methods of RemoteClient.prototype
prototype == {"setManagers", "getManager", "getRandomManager", "setConnection", "request"}
\* the property names of a client object
Properties ==
    Identifiers \cup {steamIDs[i] : i \in DOMAIN steamIDs}
        \cup {"requestTimeout", "connection", "steamIDs"} \cup prototype

RECURSIVE ListsUpTo(_)
\* the lists of at most n identifiers
ListsUpTo(n) ==
    IF n = 0 THEN {<<>>}
    ELSE ListsUpTo(n - 1)
            \cup {Append(l, i) : l \in {k \in ListsUpTo(n - 1) : Len(k) = n - 1},
                                 i \in Identifiers}

\* property values: no own property, the default requestTimeout, the Manager
\* of socket.io-client, the steamIDs array, the object holding the bound
\* requests of one steamID, a method of the prototype
Absent == [t |-> "absent", s |-> ""]
DefaultRequestTimeout == [t |-> "number", s |-> "90000"]
Connection == [t |-> "Manager", s |-> "ws://host:port"]
Array == [t |-> "array", s |-> "steamIDs"]
Proxy(steamID) == [t |-> "proxy", s |-> steamID]
Method(name) == [t |-> "function", s |-> name]
TypeError == [t |-> "TypeError", s |-> ""]

\* this[key]: the own property, else the prototype's, else undefined
property(cl, key) ==
    IF cl.props[key] # Absent THEN cl.props[key]
    ELSE IF key \in prototype THEN Method(key)
    ELSE Undefined

\* one round of steamIDs.forEach: this[steamID] = { }, then
\* this.request.bind(...) for each method, a TypeError unless this.request
\* is still the function
attach(cl, steamID) ==
    IF cl.threw THEN cl
    ELSE LET next == [cl EXCEPT !.props[steamID] = Proxy(steamID)]
         IN IF property(next, "request") = Method("request")
            THEN next
            ELSE [next EXCEPT !.threw = TRUE]

RECURSIVE forEach(_, _)
forEach(cl, list) ==
    IF list = <<>> THEN cl ELSE forEach(attach(cl, Head(list)), Tail(list))

\* RemoteClient.prototype.setManagers
setManagers(cl, list) ==
    forEach([cl EXCEPT !.props["steamIDs"] = Array, !.list = list], list)

\* new RemoteClient({ steamIDs: list })
RemoteClient(list) ==
    setManagers([props |-> [k \in Properties |->
                               IF k = "requestTimeout" THEN DefaultRequestTimeout
                               ELSE IF k = "connection" THEN Connection
                               ELSE Absent],
                 list |-> <<>>, threw |-> FALSE], list)

\* RemoteClient.prototype.getRandomManager, random the value of
\* Math.floor(Math.random() * this.steamIDs.length)
getRandomManager(cl, random) ==
    IF property(cl, "steamIDs") = Array /\ random < Len(cl.list)
    THEN property(cl, cl.list[random + 1])
    ELSE property(cl, "undefined")

\* RemoteClient.prototype.getManager
getManager(cl, steamID, random) ==
    IF ~Truthy(steamID) THEN getRandomManager(cl, random)
    ELSE IF property(cl, "steamIDs") # Array THEN TypeError
    ELSE IF IndexOf(cl.list, steamID.s) = -1 THEN property(cl, "undefined")
    ELSE property(cl, cl.list[IndexOf(cl.list, steamID.s) + 1])

NoGot == [steamID |-> Undefined, result |-> Absent]

\* client.getManager(steamID), or client.getManager()
GetManager ==
    /\ ~client.threw
    /\ \E steamID \in {Undefined} \cup {Str(i) : i \in Identifiers},
          random \in 0..(MaxIds - 1) :
          /\ random = 0 \/ random < Len(client.list)
          /\ got' = [steamID |-> steamID, result |-> getManager(client, steamID, random)]
    /\ UNCHANGED <<allowedIP, handshake, socket, callVars, supVars, broadcast, client>>

(***************************************************************************)
(* Specifications                                                          *)
(***************************************************************************)
InitCalls ==
    /\ req = [c \in Calls |-> NoRequest]
    /\ wire = [c \in Calls |-> "idle"]
    /\ timeout = [c \in Calls |-> "unset"]
    /\ outcome = [c \in Calls |-> <<>>]
    /\ srv = [c \in Calls |-> NoSrv]
    /\ ack = [c \in Calls |-> NoAck]
    /\ acked = [c \in Calls |-> FALSE]
    /\ channel = "connecting"
    /\ reopens = 0
    /\ broadcast = <<>>
    /\ client = RemoteClient(steamIDs)
    /\ got = NoGot

\* a client and a server after construction, one connection arriving
Init ==
    /\ allowedIP = DefaultAllowedIP
    /\ handshake \in MainHandshakes
    /\ socket = NewSocket
    /\ InitCalls

Next ==
    \/ OnConnection
    \/ \E c \in Calls : Request(c)
    \/ \E c \in Calls : ServerReceive(c)
    \/ \E c \in Calls : ManagerSettle(c)
    \/ \E c \in Calls : AckInvoke(c)
    \/ \E c \in Calls : TimerFire(c)
    \/ ChannelConnect
    \/ DisconnectSignal
    \/ FailureSignal
    \/ ReopenFire

Spec == Init /\ [][Next]_vars

\* a started timer fires unless it is cancelled
FairSpec == Spec /\ \A c \in Calls : WF_vars(TimerFire(c))

\* the authorization check over every address pair and allowlist
AuthInit ==
    /\ allowedIP \in AllowLists
    /\ handshake \in Handshakes
    /\ socket = NewSocket
    /\ InitCalls

AuthNext == OnConnection

AuthSpec == AuthInit /\ [][AuthNext]_vars

\* the managers of the server emit their events
ForwardNext ==
    \/ NewItems
    \/ SentOfferChanged
    \/ ReceivedOfferChanged

ForwardSpec == Init /\ [][ForwardNext]_vars

\* a client constructed with any list of identifiers, asked for managers
ProxyInit ==
    /\ allowedIP = DefaultAllowedIP
    /\ handshake \in MainHandshakes
    /\ socket = NewSocket
    /\ req = [c \in Calls |-> NoRequest]
    /\ wire = [c \in Calls |-> "idle"]
    /\ timeout = [c \in Calls |-> "unset"]
    /\ outcome = [c \in Calls |-> <<>>]
    /\ srv = [c \in Calls |-> NoSrv]
    /\ ack = [c \in Calls |-> NoAck]
    /\ acked = [c \in Calls |-> FALSE]
    /\ channel = "connecting"
    /\ reopens = 0
    /\ broadcast = <<>>
    /\ client \in {RemoteClient(list) : list \in ListsUpTo(MaxIds)}
    /\ got = NoGot

ProxyNext == GetManager

ProxySpec == ProxyInit /\ [][ProxyNext]_vars

\* the supervisor with one request in flight; a scheduled reopen timer fires
SupCalls == {1}

SupNext ==
    \/ OnConnection
    \/ \E c \in SupCalls : Request(c)
    \/ \E c \in SupCalls : ServerReceive(c)
    \/ \E c \in SupCalls : ManagerSettle(c)
    \/ \E c \in SupCalls : AckInvoke(c)
    \/ \E c \in SupCalls : TimerFire(c)
    \/ ChannelConnect
    \/ \E sig \in FailureSignals \cup {"disconnect"} : Signal(sig, MaxPending)
    \/ ReopenFire

SupSpec == Init /\ [][SupNext]_vars /\ WF_vars(ReopenFire)

(***************************************************************************)
(* Properties                                                              *)
(***************************************************************************)
Range(f) == {f[i] : i \in DOMAIN f}
issued(c) == timeout[c] # "unset"
\* the acknowledgment callback was invoked while the timer was still pending
ackedInTime(c) == acked[c] /\ timeout[c] = "cleared"
TimeoutError == NewError("Request Timeout")

\* C1: whatever the order and number of timer expiry and acknowledgment
\* invocations, the caller of request observes at most one outcome.
C1_AtMostOneOutcome == \A c \in Calls : Len(outcome[c]) <= 1

\* a call whose timer fired and whose acknowledgment was invoked afterwards
C1_Witness ==
    \E c \in Calls : timeout[c] = "null" /\ acked[c] /\ Len(outcome[c]) = 1

\* C2: every issued call eventually has an outcome, provided a started timer
\* fires unless cancelled (issued and settled are both stable, so "eventually
\* always no issued call is unsettled" says each issued call is settled).
C2_EveryCallSettles ==
    <>[](\A c \in Calls : issued(c) => outcome[c] # <<>>)

\* a call settled although the server never saw its event and the channel is
\* disconnected
C2_Witness ==
    \E c \in Calls : outcome[c] # <<>> /\ wire[c] = "sent" /\ channel = "disconnected"

\* C3: once the timer has fired the outcome is the rejection with
\* Error('Request Timeout'), and no later step (an acknowledgment with an error
\* or with a result included) changes the outcome or the timeout variable.
C3_TimeoutThenAckIsNoOp ==
    [][\A c \in Calls :
          /\ timeout'[c] = "null" => outcome'[c] = <<Rejected(TimeoutError)>>
          /\ timeout[c] = "null" => (outcome'[c] = outcome[c] /\ timeout'[c] = "null")]_vars

\* a timed-out call whose acknowledgment, carrying a result, was invoked late
C3_Witness ==
    \E c \in Calls : timeout[c] = "null" /\ acked[c] /\ ack[c].err = Null

\* C4: when the manager operation failed with message m and the acknowledgment
\* was invoked before the timer fired, the outcome is a rejection whose error
\* carries exactly m.
C4_RemoteFailureRejects ==
    \A c \in Calls :
        (srv[c].op = "settled" /\ ~srv[c].result.ok /\ ackedInTime(c))
            => outcome[c] = <<Rejected(NewError(srv[c].result.message))>>

\* C5: when the manager operation succeeded with value v and the
\* acknowledgment was invoked before the timer fired, the call resolved, once,
\* with v.
C5_SuccessResolvesWithValue ==
    \A c \in Calls :
        (srv[c].op = "settled" /\ srv[c].result.ok /\ ackedInTime(c))
            => outcome[c] = <<Fulfilled(srv[c].result.v)>>

C5_Witness ==
    \E c \in Calls :
        /\ srv[c].op = "settled" /\ srv[c].result.ok /\ ackedInTime(c)
        /\ outcome[c] = <<Fulfilled(Obj("inventory of B"))>>

\* C6: an event whose name is not createOffer or loadInventory is answered
\* with the error "method isn't allowed" and causes no manager lookup and no
\* manager operation; an event with one of the two names reaches the handler
\* registered for that name.
C6_RouterRejectsUnknownEvents ==
    \A c \in Calls :
        wire[c] = "received" =>
            IF req[c].event \in {"createOffer", "loadInventory"}
            THEN srv[c].handler = req[c].event
            ELSE /\ ack[c] = Cb(Str("method isn't allowed"), Undefined)
                 /\ srv[c].handler = "" /\ srv[c].lookups = 0
                 /\ srv[c].manager = 0 /\ srv[c].op = "none"

C6_Witness ==
    \E c \in Calls : wire[c] = "received" /\ req[c].event = "deleteAll" /\ ack[c].sent

\* the connection's derived address is a string that is in the allowlist
\* neither as it is nor with its non-digit, non-dot characters removed
notAllowed(hs, allow) ==
    /\ socketIP(hs).t = "string"
    /\ socketIP(hs).s \notin Range(allow)
    /\ StripNonDigitDot(socketIP(hs).s) \notin Range(allow)

\* C7: a connection whose derived address is not in the allowlist is
\* disconnected by the authorization step, no later middleware runs on it, no
\* handlers are attached to it, and no event sent over it is routed, looked up
\* or executed.
C7_RejectedNeverServed ==
    notAllowed(handshake, allowedIP) =>
        /\ socket.status \in {"pending", "disconnected"}
        /\ socket.steps \in {<<>>, <<"authorization">>}
        /\ ~socket.handlers
        /\ \A c \in Calls : wire[c] # "received" /\ srv[c] = NoSrv /\ ~ack[c].sent

\* a rejected connection, and an event emitted over it that went nowhere
C7_Witness ==
    /\ notAllowed(handshake, allowedIP)
    /\ socket.status = "disconnected"
    /\ \E c \in Calls : wire[c] = "dropped"

\* the derived address as the claim words it: the forwarded-for header when
\* there is one, the raw socket address otherwise
derivedAddress(hs) == IF hs.xff.t = "string" THEN hs.xff ELSE hs.address

\* C8: for a non-empty derived address a and allowlist L, the connection is
\* accepted exactly when a is in L or a without its non-digit, non-dot
\* characters is in L.
C8_AuthorizationDecision ==
    LET a == derivedAddress(handshake)
    IN (socket.status # "pending" /\ a.t = "string" /\ a.s # <<>>)
          => ((socket.status = "connected")
                 <=> (a.s \in Range(allowedIP) \/ StripNonDigitDot(a.s) \in Range(allowedIP)))

\* ::ffff:127.0.0.1 accepted under the default allowlist
C8_Witness ==
    /\ allowedIP = <<Loopback4, Loopback6>>
    /\ handshake = [xff |-> NoAddr, address |-> Addr(Mapped4)]
    /\ socket.status = "connected"

\* C9: a connection for which no address can be derived is disconnected by
\* the authorization step, with no handlers attached.
C9_NoAddressDisconnects ==
    (socket.status # "pending" /\ handshake.xff = NoAddr /\ handshake.address = NoAddr)
        => (socket.status = "disconnected" /\ ~socket.handlers)

\* C10: a valid operation for a steamID no manager has is answered, in the
\* step that receives it, with "manager wasn't found"; no manager operation is
\* invoked; and the call is rejected with that message when the acknowledgment
\* is invoked before the timer fires.
C10_UnknownManager ==
    \A c \in Calls :
        (wire[c] = "received" /\ req[c].event \in {"createOffer", "loadInventory"}
            /\ req[c].steamID \notin Range(managers))
        => /\ ack[c] = Cb(Str("manager wasn't found"), Undefined)
           /\ srv[c].manager = 0 /\ srv[c].op = "none"
           /\ ackedInTime(c) => outcome[c] = <<Rejected(NewError("manager wasn't found"))>>

C10_Witness ==
    \E c \in Calls :
        /\ req[c].event = "loadInventory" /\ req[c].steamID = "Z"
        /\ outcome[c] = <<Rejected(NewError("manager wasn't found"))>>

\* C11: a disconnected client always has a reopen scheduled, and every
\* disconnection is followed by a reopen of the channel, provided a scheduled
\* reopen timer fires.
C11_RetriesForever ==
    /\ [](channel = "disconnected" => reopens > 0)
    /\ (channel = "disconnected") ~> (channel = "connecting")

\* the channel reopening after a second disconnection, one reopen still scheduled
C11_Witness == channel = "connecting" /\ reopens = 1

\* C12: in every reachable client state, the listeners run by each of error,
\* connect_error, connect_timeout and disconnect leave the same state: the
\* channel closed, one more reopen scheduled, nothing else changed.
C12_FailureSignalsAreDisconnect ==
    \A sig \in {"error", "connect_error", "connect_timeout", "disconnect"} :
        /\ ioEmit(sig, clientState) = ioEmit("disconnect", clientState)
        /\ ioEmit(sig, clientState) =
              [clientState EXCEPT !.channel = "disconnected", !.reopens = reopens + 1]

\* a signal handled while the channel was already closed by an earlier one
C12_Witness == channel = "disconnected" /\ reopens = 2

\* C13: a step of the supervisor (the channel state or the pending reopen
\* timers change) changes no call's timeout variable or outcome, and a call
\* that is settled without its acknowledgment ever having been invoked is
\* rejected with Error('Request Timeout').
C13_DisconnectLeavesRequests ==
    [][\A c \in Calls :
          /\ (channel' # channel \/ reopens' # reopens)
                => (timeout'[c] = timeout[c] /\ outcome'[c] = outcome[c])
          /\ (outcome'[c] # <<>> /\ ~acked'[c]) => outcome'[c] = <<Rejected(TimeoutError)>>]_vars

\* the server answered, the channel went down before the acknowledgment was
\* delivered, and the call timed out
C13_Witness ==
    \E c \in Calls :
        /\ ack[c].sent /\ ~acked[c] /\ channel = "disconnected"
        /\ outcome[c] = <<Rejected(TimeoutError)>>

\* C19: at most one reopen of the channel is pending at any time.
C19_OneReopenPending == reopens <= 1

\* C16: once a request has reached an operation handler, cb has been invoked
\* exactly once if no manager was found or the manager operation has settled
\* (with (null, result) on success, with the message on failure), and not at
\* all while the operation is pending.
C16_CallbackExactlyOnce ==
    \A c \in Calls :
        srv[c].handler # "" =>
            /\ srv[c].op = "pending" => (srv[c].cbs = 0 /\ ~ack[c].sent)
            /\ srv[c].op = "none" =>
                  (srv[c].cbs = 1 /\ ack[c] = Cb(Str("manager wasn't found"), Undefined))
            /\ srv[c].op = "settled" =>
                  /\ srv[c].cbs = 1
                  /\ ack[c] = IF srv[c].result.ok
                              THEN Cb(Null, srv[c].result.v)
                              ELSE Cb(Str(srv[c].result.message), Undefined)

\* a manager operation that failed with a message, answered once
C16_Witness ==
    \E c \in Calls :
        /\ srv[c].op = "settled" /\ srv[c].result.message = "Steam is down"
        /\ srv[c].cbs = 1

\* C17: for a call made through the proxy callable of (i, o) with arguments
\* a, the packet is event o with { steamID i, args a }, and what the server
\* invokes is operation o with a on the manager whose steamID is i; it
\* invokes nothing only if no manager has steamID i.
C17_ProxyReachesItsManager ==
    \A c \in Calls :
        \A i \in Range(steamIDs), o \in Range(methods) :
            (wire[c] # "idle" /\ req[c] = boundRequest(i, o, req[c].args)) =>
                LET a == IF req[c].args = Undefined THEN Obj("{}") ELSE req[c].args
                IN /\ emit(req[c]) = [event |-> o, steamID |-> i, args |-> a]
                   /\ srv[c].op # "none" =>
                         /\ managers[srv[c].manager] = i
                         /\ srv[c].method = o
                         /\ srv[c].args = a
                   /\ (wire[c] = "received" /\ srv[c].op = "none") =>
                         i \notin Range(managers)

\* loadInventory invoked on the second manager with the default arguments
C17_Witness ==
    \E c \in Calls :
        /\ req[c] = boundRequest("B", "loadInventory", Undefined)
        /\ srv[c].op = "pending" /\ srv[c].manager = 2 /\ srv[c].args = Obj("{}")

\* C18: a step that changes the timeout variable, the outcome or the server's
\* handling of one call changes those of no other call, and a settled call
\* carries either the timeout error or the outcome of its own acknowledgment.
C18_CallsAreIndependent ==
    /\ [](\A c \in Calls :
            outcome[c] # <<>> =>
                \/ outcome[c] = <<Rejected(TimeoutError)>>
                \/ /\ acked[c]
                   /\ outcome[c] = onAck("armed", <<>>, ack[c].err, ack[c].data).outcome)
    /\ [][\A c \in Calls :
            (\/ timeout'[c] # timeout[c] \/ outcome'[c] # outcome[c]
             \/ srv'[c] # srv[c] \/ ack'[c] # ack[c])
                => \A d \in Calls \ {c} :
                      /\ timeout'[d] = timeout[d] /\ outcome'[d] = outcome[d]
                      /\ srv'[d] = srv[d] /\ ack'[d] = ack[d]]_vars

\* two calls pending together; the first timed out although its late
\* acknowledgment was delivered, the second was resolved by its own
C18_Witness ==
    /\ outcome[1] = <<Rejected(TimeoutError)>> /\ acked[1]
    /\ outcome[2] # <<>> /\ outcome[2][1].kind = "resolved"

\* C14: every broadcast payload has a field holding the identifier of the
\* manager that emitted the event, next to offer and oldState for the two
\* offer events.
C14_PayloadCarriesIdentifier ==
    \A n \in DOMAIN broadcast :
        LET b == broadcast[n]
        IN /\ \E k \in DOMAIN b.payload :
                 b.payload[k] = getSteamID64(accounts[b.manager].steamID)
           /\ b.event # "newItems" => {"offer", "oldState"} \subseteq DOMAIN b.payload

\* C15: getManager returns the proxy of a configured identifier it is given,
\* undefined (and no error) for an identifier that is not configured, and the
\* proxy of some configured identifier when none is given and one exists.
C15_GetManager ==
    got # NoGot =>
        IF got.steamID = Undefined
        THEN client.list # <<>> => \E i \in Range(client.list) : got.result = Proxy(i)
        ELSE IF got.steamID.s \in Range(client.list)
        THEN got.result = Proxy(got.steamID.s)
        ELSE got.result = Undefined

\* C20: after construction the client's connection, requestTimeout, steamIDs
\* list and its request and getManager methods are those of the constructor.
C20_SetManagersFrame ==
    /\ ~client.threw
    /\ property(client, "connection") = Connection
    /\ property(client, "requestTimeout") = DefaultRequestTimeout
    /\ property(client, "steamIDs") = Array
    /\ property(client, "request") = Method("request")
    /\ property(client, "getManager") = Method("getManager")

====
